---- MODULE Spec2Model ----
(***************************************************************************)
(* Model of the socket.io room server of src/useSocket.ts (lines 73-291):  *)
(* the in-memory room table `rooms`, the socket.io broadcast groups, and   *)
(* the seven event handlers registered in io.on('connection').             *)
(*                                                                         *)
(* Node runs every handler to completion on one thread, so each handler is *)
(* one atomic action.  A JavaScript Map is modelled as the sequence of its *)
(* entries in insertion order (set on an existing key keeps the position). *)
(***************************************************************************)
EXTENDS Integers, Sequences, FiniteSets, TLC

\* ------------------------------------------------------------------ bounds
\* Playback positions reported by clients range over 0..MaxTimestamp.
MaxTimestamp == 1

\* --------------------------------------------------------------- universes
\* Transport connections; a connection's socket.id is its name.
Conns == {"c1", "c2"}

Rooms == {"abc", "r2"}

\* The room the events of the full-alphabet specification name.
MainRooms == {"abc"}

\* Member records a client may put in a payload.  "A" and "B" are account
\* ids; the id "c2" is the socket.id of connection c2.
Users ==
  { [id |-> "A", name |-> "Ann"], [id |-> "B", name |-> "Bob"],
    [id |-> "c2", name |-> "Cy"] }

MemberIds == { u.id : u \in Users }

Timestamps == 0..MaxTimestamp

\* ------------------------------------------------------------------- URLs
\* A url string is modelled by what `new URL(url)` makes of it: whether it
\* parses, its hostname, its path segments and its `v` query parameter
\* ("" when absent).  Video ids are atoms, except NestedId.
PlainUrl == [parsed |-> TRUE, host |-> "x", path |-> <<>>, v |-> ""]

ShortUrl == [parsed |-> TRUE, host |-> "youtu.be", path |-> <<"id1">>, v |-> ""]

InputUrls == {PlainUrl, ShortUrl}

\* The text "id1?v=id2": what searchParams.get('v') returns for the url
\* https://www.youtube.com/watch?v=id1?v=id2 (a query is split at "&" and
\* at the first "=" of each part, so the value keeps the second "?").
NestedId == "id1?v=id2"

\* The part of a text before its first "?".
BeforeQuery(text) == IF text = NestedId THEN "id1" ELSE text

\* The `v` parameter of the query that starts at the first "?" of a text.
QueryV(text) == IF text = NestedId THEN "id2" ELSE ""

\* `https://www.youtube.com/embed/${videoId}`, as a later new URL() reads it:
\* a "?" in the video id starts the query of the result.
EmbedUrl(segs) ==
  [parsed |-> TRUE, host |-> "www.youtube.com",
   path |-> <<"embed">> \o [i \in 1..Len(segs) |-> BeforeQuery(segs[i])],
   v |-> IF segs = <<>> THEN "" ELSE QueryV(segs[Len(segs)])]

convertToEmbedUrl(url) ==
  IF ~url.parsed THEN url
  ELSE IF url.host \in {"www.youtube.com", "youtube.com"} /\ url.v # ""
    THEN EmbedUrl(<<url.v>>)
  ELSE IF url.host = "youtu.be" THEN EmbedUrl(url.path)
  ELSE url

\* ------------------------------------------------------- JavaScript Map
\* A Map is a sequence of entries [k, v] with distinct keys.
MapHas(m, key) == \E i \in 1..Len(m) : m[i].k = key

MapGet(m, key) == m[CHOOSE i \in 1..Len(m) : m[i].k = key].v

MapSet(m, key, val) ==
  IF MapHas(m, key)
    THEN [i \in 1..Len(m) |-> IF m[i].k = key THEN [k |-> key, v |-> val] ELSE m[i]]
    ELSE Append(m, [k |-> key, v |-> val])

MapDelete(m, key) == SelectSeq(m, LAMBDA e : e.k # key)

MapKeys(m) == { m[i].k : i \in 1..Len(m) }

\* Array.from(map.values())
MapValues(m) == [i \in 1..Len(m) |-> m[i].v]

\* ------------------------------------------------------------------ state
VARIABLES
  status,      \* per connection: "idle" (not yet connected), "connected", "closed"
  sockRooms,   \* per connection: the socket.io rooms the socket has joined
  rooms,       \* the Map `rooms`: roomId -> [members: Map, videoState: <<>> or <<vs>>]
  out,         \* emissions of the handler that ran last, in order:
               \* [ev, data, roomId (the room addressed, "" for a direct emit),
               \*  to (the connections it is delivered to)]
  last,        \* the inbound event handled last
  owner,       \* history: the connection whose join-room wrote each member entry
  presence,    \* history: per room, the member ids whose last presence event is a join
  prevReport,  \* history: when `last` is a video-state-change that directly followed
               \* another one for the same room with a different position:
               \* "both" if isPlaying differed too, else "position"; else "none"
  scen,        \* history: progress through the end-to-end scenario
  lastPlay,    \* history: per room, <<>> or <<[isPlaying, timestamp]>> of the
               \* sync-url or video-state-change handled last for that room
  race,        \* history: progress of a leave-room by a room's only member and a
               \* join-room into that room from another connection, handled
               \* back to back in either order
  inbox,       \* per connection: the presence notifications sent to it and not
               \* yet received, oldest first: [ev, id (the member's), n (the
               \* number of the handler run that committed the mutation)]
  commits,     \* the number of presence handler runs so far
  seen,        \* history: per connection and member id, the commit numbers of the
               \* member-left and the member-joined it received last (0: none)
  thrown,      \* the exception a handler let escape ("none" if none did)
  joinedAs,    \* history: per connection and room, the member id of the
               \* connection's last join-room into the room, NoMember if it
               \* never joined or has sent leave-room since; kept when the
               \* transport closes
  player,      \* one client's watch page: the local player and what it received
  pages,       \* per client: the socket hook's and the watch page's React state
  up,          \* per connection: the events the client emitted and the server
               \* has not handled yet, oldest first
  down,        \* per connection: the events the server emitted to it and the
               \* client has not handled yet, oldest first
  api          \* the persisted-room API: the stored room, the requests between
               \* their two database calls, and the response given last

vars == <<status, sockRooms, rooms, out, last, owner, presence, prevReport, scen,
          lastPlay, race, inbox, commits, seen, thrown, joinedAs, player,
          pages, up, down, api>>

\* The variables of the client pages and of the persisted-room API.
appvars == <<pages, up, down, api>>

\* The variables of the delivery to the clients.
netvars == <<inbox, commits, seen>>

\* The variables that only the specifications about malformed events, about
\* the broadcast groups and about the watch page change.
sidevars == <<thrown, joinedAs, player, appvars>>

NoMember == "nobody"

\* useState(""): the empty string does not parse as a URL.
EmptyUrl == [parsed |-> FALSE, host |-> "", path |-> <<>>, v |-> ""]

\* The watch page before anything was received: no url, paused at 0.
NewPlayer ==
  [url |-> EmptyUrl, currentTime |-> 0, isPlaying |-> FALSE, seeking |-> FALSE,
   captured |-> FALSE, sought |-> FALSE,
   got |-> [ev |-> "none", timestamp |-> 0, n |-> 0]]

NoConn == "none"

\* The browser tabs; each runs one watch page with one socket hook.
Clients == {"p1", "p2"}

\* useState initial values of the hook (isConnected) and of the page, the
\* server connection behind the hook's socket, whether the join (or create)
\* mutation is pending, and a history: `sent`, the number of sync-url events
\* the page emitted.
NewPage ==
  [conn |-> NoConn, isConnected |-> FALSE, isInRoom |-> FALSE, url |-> EmptyUrl,
   members |-> <<>>, joining |-> FALSE, sent |-> 0]

\* Of the persisted-room API: no room row, no request in progress, no
\* response yet.
NoCall == [proc |-> "none"]

ApiUsers == {"A", "B"}

NewApi ==
  [exists |-> FALSE, participants |-> {}, currentUrl |-> <<>>, messages |-> <<>>,
   pending |-> [u \in ApiUsers |-> NoCall],
   reply |-> [proc |-> "none", tick |-> FALSE],
   joined |-> {}]

NoRace == [stage |-> "none"]

\* The connections in roomId's broadcast group.
Group(sr, roomId) == { c \in Conns : roomId \in sr[c] }

\* socket.to(roomId).emit(ev, data) from socket c
ToOthers(sr, c, roomId, ev, data) ==
  [ev |-> ev, data |-> data, roomId |-> roomId, to |-> Group(sr, roomId) \ {c}]

\* io.to(roomId).emit(ev, data)
ToRoom(sr, roomId, ev, data) ==
  [ev |-> ev, data |-> data, roomId |-> roomId, to |-> Group(sr, roomId)]

\* socket.emit(ev, data)
ToSelf(c, ev, data) == [ev |-> ev, data |-> data, roomId |-> "", to |-> {c}]

NewRoom == [members |-> <<>>, videoState |-> <<>>]

Init ==
  /\ status = [c \in Conns |-> "idle"]
  /\ sockRooms = [c \in Conns |-> {}]
  /\ rooms = <<>>
  /\ out = <<>>
  /\ last = [op |-> "init"]
  /\ owner = [r \in Rooms |-> [id \in MemberIds |-> NoConn]]
  /\ presence = [r \in Rooms |-> {}]
  /\ prevReport = "none"
  /\ scen = 0
  /\ lastPlay = [r \in Rooms |-> <<>>]
  /\ race = NoRace
  /\ inbox = [c \in Conns |-> <<>>]
  /\ commits = 0
  /\ seen = [c \in Conns |-> [id \in MemberIds |-> [left |-> 0, joined |-> 0]]]
  /\ thrown = "none"
  /\ joinedAs = [c \in Conns |-> [r \in Rooms |-> NoMember]]
  /\ player = NewPlayer
  /\ pages = [p \in Clients |-> NewPage]
  /\ up = [c \in Conns |-> <<>>]
  /\ down = [c \in Conns |-> <<>>]
  /\ api = NewApi

\* ------------------------------------------------------ history bookkeeping
\* The end-to-end scenario of the specification, as inbound events: A is on
\* connection c1, B on connection c2.
MemberA == [id |-> "A", name |-> "Ann"]

MemberB == [id |-> "B", name |-> "Bob"]

Scenario ==
  << [op |-> "join-room", conn |-> "c1", roomId |-> "abc", user |-> MemberA],
     [op |-> "join-room", conn |-> "c2", roomId |-> "abc", user |-> MemberB],
     [op |-> "sync-url", conn |-> "c1", roomId |-> "abc", url |-> PlainUrl, timestamp |-> 0],
     [op |-> "disconnect", conn |-> "c2"],
     [op |-> "leave-room", conn |-> "c1", roomId |-> "abc", user |-> MemberA] >>

\* scen = k: after the connections were made, exactly the first k scenario
\* events have been handled; -1: some other event was handled.
ScenAfter(ev) ==
  IF scen >= 0 /\ scen < Len(Scenario) /\ Scenario[scen + 1] = ev THEN scen + 1 ELSE -1

\* sync-url reports a position and implies isPlaying: true (line 175);
\* video-state-change reports both.
PlayAfter(ev) ==
  IF ev.op = "sync-url"
    THEN [lastPlay EXCEPT ![ev.roomId] =
            << [isPlaying |-> TRUE, timestamp |-> ev.timestamp] >>]
  ELSE IF ev.op = "video-state-change"
    THEN [lastPlay EXCEPT ![ev.roomId] =
            << [isPlaying |-> ev.isPlaying, timestamp |-> ev.timestamp] >>]
  ELSE lastPlay

\* Connection c is in roomId's broadcast group and wrote the only member
\* entry of roomId, under key id.
Sole(c, roomId, id) ==
  /\ MapHas(rooms, roomId)
  /\ MapKeys(MapGet(rooms, roomId).members) = {id}
  /\ owner[roomId][id] = c
  /\ roomId \in sockRooms[c]

\* stage "left": the only member's connection has just left; "joined": another
\* connection has just joined the room of an only member; "both": the other
\* of the two events has been handled right after.
RaceAfter(ev) ==
  IF ev.op = "join-room"
    THEN IF race.stage = "left" /\ race.room = ev.roomId /\ race.leaver # ev.conn
           THEN [race EXCEPT !.stage = "both", !.joiner = ev.conn, !.jid = ev.user.id]
         ELSE IF \E c \in Conns \ {ev.conn}, id \in MemberIds : Sole(c, ev.roomId, id)
           THEN LET c == CHOOSE c \in Conns \ {ev.conn} :
                           \E id \in MemberIds : Sole(c, ev.roomId, id)
                    id == CHOOSE id \in MemberIds : Sole(c, ev.roomId, id)
                IN [stage |-> "joined", room |-> ev.roomId, leaver |-> c, lid |-> id,
                    joiner |-> ev.conn, jid |-> ev.user.id]
         ELSE NoRace
  ELSE IF ev.op = "leave-room"
    THEN IF /\ race.stage = "joined" /\ race.room = ev.roomId
            /\ race.leaver = ev.conn /\ race.lid = ev.user.id
           THEN [race EXCEPT !.stage = "both"]
         ELSE IF Sole(ev.conn, ev.roomId, ev.user.id)
           THEN [stage |-> "left", room |-> ev.roomId, leaver |-> ev.conn,
                 lid |-> ev.user.id, joiner |-> NoConn, jid |-> ""]
         ELSE NoRace
  ELSE NoRace

\* What every handler records about the event it handled.
Handled(ev) ==
  /\ last' = ev
  /\ prevReport' = IF /\ ev.op = "video-state-change"
                       /\ last.op = "video-state-change"
                       /\ last.roomId = ev.roomId
                       /\ last.timestamp # ev.timestamp
                    THEN IF last.isPlaying # ev.isPlaying THEN "both" ELSE "position"
                    ELSE "none"
  /\ scen' = ScenAfter(ev)
  /\ lastPlay' = PlayAfter(ev)
  /\ race' = RaceAfter(ev)

\* ---------------------------------------------------------------- handlers
\* io.on('connection'): a new socket; nothing is joined and nothing is sent.
Connect(c) ==
  /\ status[c] = "idle"
  /\ status' = [status EXCEPT ![c] = "connected"]
  /\ out' = <<>>
  /\ last' = [op |-> "connection", conn |-> c]
  /\ prevReport' = "none"
  /\ scen' = IF scen = 0 THEN 0 ELSE -1
  /\ race' = NoRace
  /\ UNCHANGED <<sockRooms, rooms, owner, presence, lastPlay>>

\* rooms.has / rooms.set(roomId, { members: new Map() })
GetOrCreate(rs, roomId) ==
  IF MapHas(rs, roomId) THEN rs ELSE MapSet(rs, roomId, NewRoom)

\* Variant: an id that is already present keeps its first record.
JoinMembersKeepFirst(members, user) ==
  IF MapHas(members, user.id) THEN members ELSE MapSet(members, user.id, user)

\* Variant: the member is pushed onto a list without looking for its id.
JoinMembersAppend(members, user) == Append(members, [k |-> user.id, v |-> user])

\* room.members.set(user.id, user)
JoinMembers(members, user) == MapSet(members, user.id, user)

\* Variant: the snapshot is taken before the insertion.
JoinSnapshotBefore(before, after) == MapValues(before)

\* const members = Array.from(room.members.values()), taken after the insertion
JoinSnapshot(before, after) == MapValues(after)

\* Variant: member-joined goes out with io.to(roomId), the joiner included.
JoinEmitsAll(sr, c, roomId, user, members) ==
  << ToSelf(c, "room-state", [members |-> members]),
     ToRoom(sr, roomId, "member-joined", user) >>

\* socket.emit("room-state"), then socket.to(roomId).emit("member-joined")
JoinEmits(sr, c, roomId, user, members) ==
  << ToSelf(c, "room-state", [members |-> members]),
     ToOthers(sr, c, roomId, "member-joined", user) >>

\* Variant: every join stores a fresh record { members }.
JoinRecordFresh(room, members) == [members |-> members, videoState |-> <<>>]

\* room.members.set(...) on the record in the table: the other fields stay.
JoinRecord(room, members) == [room EXCEPT !.members = members]

JoinRoom(c, roomId, user) ==
  /\ status[c] = "connected"
  /\ LET sr == [sockRooms EXCEPT ![c] = @ \cup {roomId}]
         rs0 == GetOrCreate(rooms, roomId)
         room == MapGet(rs0, roomId)
         after == JoinMembers(room.members, user)
         members == JoinSnapshot(room.members, after)
     IN /\ sockRooms' = sr
        /\ rooms' = MapSet(rs0, roomId, JoinRecord(room, after))
        /\ out' = JoinEmits(sr, c, roomId, user, members)
  /\ owner' = [owner EXCEPT ![roomId][user.id] = c]
  /\ presence' = [presence EXCEPT ![roomId] = @ \cup {user.id}]
  /\ Handled([op |-> "join-room", conn |-> c, roomId |-> roomId, user |-> user])
  /\ UNCHANGED status

\* room.members.delete(user.id)
LeaveMembers(members, user) == MapDelete(members, user.id)

\* Variant: the record of a room that became empty is kept.
LeaveCleanupKeep(rs, roomId, room) == MapSet(rs, roomId, room)

\* rooms.delete(roomId) when the room became empty, else the room stays
LeaveCleanup(rs, roomId, room) ==
  IF Len(room.members) = 0 THEN MapDelete(rs, roomId) ELSE MapSet(rs, roomId, room)

\* Variant: the re-sync snapshot goes out first, member-left after it.
LeaveEmitsSnapshotFirst(sr, c, roomId, user, room) ==
  (IF Len(room.members) = 0 THEN <<>>
   ELSE << ToRoom(sr, roomId, "room-state", [members |-> MapValues(room.members)]) >>)
  \o << ToOthers(sr, c, roomId, "member-left", user) >>

\* Variant: only the member-left delta goes out, no re-sync snapshot.
LeaveEmitsDelta(sr, c, roomId, user, room) ==
  << ToOthers(sr, c, roomId, "member-left", user) >>

\* socket.to(roomId).emit("member-left"), then, unless the room became empty,
\* io.to(roomId).emit("room-state")
LeaveEmits(sr, c, roomId, user, room) ==
  << ToOthers(sr, c, roomId, "member-left", user) >>
  \o (IF Len(room.members) = 0 THEN <<>>
      ELSE << ToRoom(sr, roomId, "room-state", [members |-> MapValues(room.members)]) >>)

LeaveRoom(c, roomId, user) ==
  /\ status[c] = "connected"
  /\ LET sr == [sockRooms EXCEPT ![c] = @ \ {roomId}]
     IN /\ sockRooms' = sr
        /\ IF MapHas(rooms, roomId)
             THEN LET room0 == MapGet(rooms, roomId)
                      room == [room0 EXCEPT !.members = LeaveMembers(@, user)]
                  IN /\ rooms' = LeaveCleanup(rooms, roomId, room)
                     /\ out' = LeaveEmits(sr, c, roomId, user, room)
             ELSE /\ rooms' = rooms
                  /\ out' = <<>>
  /\ owner' = [owner EXCEPT ![roomId][user.id] = NoConn]
  /\ presence' = [presence EXCEPT ![roomId] = @ \ {user.id}]
  /\ Handled([op |-> "leave-room", conn |-> c, roomId |-> roomId, user |-> user])
  /\ UNCHANGED status

\* Variant: a fresh url starts paused.
SyncUrlStatePaused(embedUrl, timestamp) ==
  [url |-> embedUrl, timestamp |-> timestamp, isPlaying |-> FALSE]

\* room.videoState = { url: embedUrl, timestamp, isPlaying: true }
SyncUrlState(embedUrl, timestamp) ==
  [url |-> embedUrl, timestamp |-> timestamp, isPlaying |-> TRUE]

\* Variant: the url goes out with socket.broadcast.emit, to every other
\* connection that is in some room.
SyncUrlEmitsBroadcast(sr, c, roomId, embedUrl, timestamp) ==
  << [ev |-> "url-changed", data |-> [url |-> embedUrl, timestamp |-> timestamp],
      roomId |-> roomId, to |-> { d \in Conns \ {c} : sr[d] # {} }] >>

\* socket.to(roomId).emit("url-changed", { url: embedUrl, timestamp })
SyncUrlEmits(sr, c, roomId, embedUrl, timestamp) ==
  << ToOthers(sr, c, roomId, "url-changed", [url |-> embedUrl, timestamp |-> timestamp]) >>

\* The payload always carries a timestamp here (a missing one defaults to 0,
\* which is one of the Timestamps).
SyncUrl(c, roomId, url, timestamp) ==
  /\ status[c] = "connected"
  /\ LET embedUrl == convertToEmbedUrl(url)
     IN /\ rooms' = IF MapHas(rooms, roomId)
                      THEN MapSet(rooms, roomId,
                             [MapGet(rooms, roomId) EXCEPT
                                !.videoState = <<SyncUrlState(embedUrl, timestamp)>>])
                      ELSE rooms
        /\ out' = SyncUrlEmits(sockRooms, c, roomId, embedUrl, timestamp)
  /\ Handled([op |-> "sync-url", conn |-> c, roomId |-> roomId, url |-> url,
              timestamp |-> timestamp])
  /\ UNCHANGED <<status, sockRooms, owner, presence>>

\* Variant: only the position of a report is stored.
ReportStatePosition(vs, isPlaying, timestamp) == [vs EXCEPT !.timestamp = timestamp]

\* room.videoState.isPlaying = isPlaying; room.videoState.timestamp = timestamp
ReportState(vs, isPlaying, timestamp) ==
  [vs EXCEPT !.isPlaying = isPlaying, !.timestamp = timestamp]

\* Variant: the report goes out with io.to(roomId), the reporter included.
ReportEmitsAll(sr, c, roomId, isPlaying, timestamp) ==
  << ToRoom(sr, roomId, "video-state-updated",
            [isPlaying |-> isPlaying, timestamp |-> timestamp]) >>

\* socket.to(roomId).emit("video-state-updated", { isPlaying, timestamp })
ReportEmits(sr, c, roomId, isPlaying, timestamp) ==
  << ToOthers(sr, c, roomId, "video-state-updated",
              [isPlaying |-> isPlaying, timestamp |-> timestamp]) >>

VideoStateChange(c, roomId, isPlaying, timestamp) ==
  /\ status[c] = "connected"
  /\ rooms' = IF MapHas(rooms, roomId) /\ MapGet(rooms, roomId).videoState # <<>>
                THEN MapSet(rooms, roomId,
                       [MapGet(rooms, roomId) EXCEPT
                          !.videoState = <<ReportState(@[1], isPlaying, timestamp)>>])
                ELSE rooms
  /\ out' = ReportEmits(sockRooms, c, roomId, isPlaying, timestamp)
  /\ Handled([op |-> "video-state-change", conn |-> c, roomId |-> roomId,
              isPlaying |-> isPlaying, timestamp |-> timestamp])
  /\ UNCHANGED <<status, sockRooms, owner, presence>>

\* Variant: the stored state is sent with io.to(roomId).
RequestAnswerRoom(sr, c, roomId, videoState) ==
  << ToRoom(sr, roomId, "video-state-updated", videoState) >>

\* socket.emit("video-state-updated", room.videoState)
RequestAnswer(sr, c, roomId, videoState) ==
  << ToSelf(c, "video-state-updated", videoState) >>

RequestVideoState(c, roomId) ==
  /\ status[c] = "connected"
  /\ out' = IF MapHas(rooms, roomId) /\ MapGet(rooms, roomId).videoState # <<>>
              THEN RequestAnswer(sockRooms, c, roomId, MapGet(rooms, roomId).videoState[1])
              ELSE <<>>
  /\ Handled([op |-> "request-video-state", conn |-> c, roomId |-> roomId])
  /\ UNCHANGED <<status, sockRooms, rooms, owner, presence>>

\* Variant: the message goes out with socket.to(roomId), the sender excluded.
ChatEmitsOthers(sr, c, roomId, message, user) ==
  << ToOthers(sr, c, roomId, "new-message", [user |-> user, text |-> message]) >>

\* io.to(roomId).emit("new-message", { user, text: message, timestamp })
ChatEmits(sr, c, roomId, message, user) ==
  << ToRoom(sr, roomId, "new-message", [user |-> user, text |-> message]) >>

\* The server's clock reading new Date().toISOString() is left out of the payload.
ChatMessage(c, roomId, message, user) ==
  /\ status[c] = "connected"
  /\ out' = ChatEmits(sockRooms, c, roomId, message, user)
  /\ Handled([op |-> "chat-message", conn |-> c, roomId |-> roomId,
              message |-> message, user |-> user])
  /\ UNCHANGED <<status, sockRooms, rooms, owner, presence>>

\* if (userId === socket.id)
DisconnectMatches(userId, c) == userId = c

\* The body of the inner loop for the entry that matches: delete the entry,
\* member-left to the others, room-state if members remain.
DisconnectEmits(sr, c, roomId, user, members) ==
  << ToOthers(sr, c, roomId, "member-left", user) >>
  \o (IF Len(members) > 0
        THEN << ToRoom(sr, roomId, "room-state", [members |-> MapValues(members)]) >>
        ELSE <<>>)

\* for (const [roomId, room] of rooms.entries()) ...: `todo` are the entries
\* still to visit, `rs` the table so far.  Keys are unique, so at most one
\* member entry of a room matches.
RECURSIVE DisconnectLoop(_, _, _, _)
DisconnectLoop(todo, rs, sr, c) ==
  IF todo = <<>> THEN [rooms |-> rs, out |-> <<>>]
  ELSE LET roomId == Head(todo).k
           room == Head(todo).v
           hit == \E i \in 1..Len(room.members) : DisconnectMatches(room.members[i].k, c)
       IN IF hit
            THEN LET userId == room.members[CHOOSE i \in 1..Len(room.members) :
                                               DisconnectMatches(room.members[i].k, c)].k
                     user == MapGet(room.members, userId)
                     members == MapDelete(room.members, userId)
                     rs1 == IF Len(members) = 0
                              THEN MapDelete(rs, roomId)
                              ELSE MapSet(rs, roomId, [room EXCEPT !.members = members])
                     rest == DisconnectLoop(Tail(todo), rs1, sr, c)
                 IN [rooms |-> rest.rooms,
                     out |-> DisconnectEmits(sr, c, roomId, user, members) \o rest.out]
            ELSE DisconnectLoop(Tail(todo), rs, sr, c)

\* The member ids the disconnect handler removes from roomId.
DisconnectRemoved(c, roomId) ==
  IF MapHas(rooms, roomId)
    THEN { id \in MapKeys(MapGet(rooms, roomId).members) : DisconnectMatches(id, c) }
    ELSE {}

\* Transport close.  socket.io takes the socket out of all its rooms before
\* it fires "disconnect".
Disconnect(c) ==
  /\ status[c] = "connected"
  /\ status' = [status EXCEPT ![c] = "closed"]
  /\ LET sr == [sockRooms EXCEPT ![c] = {}]
         res == DisconnectLoop(rooms, rooms, sr, c)
     IN /\ sockRooms' = sr
        /\ rooms' = res.rooms
        /\ out' = res.out
  /\ owner' = [r \in Rooms |-> [id \in MemberIds |->
                 IF id \in DisconnectRemoved(c, r) THEN NoConn ELSE owner[r][id]]]
  /\ presence' = [r \in Rooms |-> presence[r] \ DisconnectRemoved(c, r)]
  /\ Handled([op |-> "disconnect", conn |-> c])

Next ==
  \/ \E c \in Conns : Connect(c) /\ UNCHANGED <<netvars, sidevars>>
  \/ \E c \in Conns, r \in MainRooms, u \in Users : JoinRoom(c, r, u) /\ UNCHANGED <<netvars, sidevars>>
  \/ \E c \in Conns, r \in MainRooms, u \in Users : LeaveRoom(c, r, u) /\ UNCHANGED <<netvars, sidevars>>
  \/ \E c \in Conns, r \in MainRooms, url \in InputUrls, t \in Timestamps : SyncUrl(c, r, url, t) /\ UNCHANGED <<netvars, sidevars>>
  \/ \E c \in Conns, r \in MainRooms, p \in BOOLEAN, t \in Timestamps : VideoStateChange(c, r, p, t) /\ UNCHANGED <<netvars, sidevars>>
  \/ \E c \in Conns, r \in MainRooms : RequestVideoState(c, r) /\ UNCHANGED <<netvars, sidevars>>
  \/ \E c \in Conns, r \in MainRooms, u \in Users : ChatMessage(c, r, "hi", u) /\ UNCHANGED <<netvars, sidevars>>
  \/ \E c \in Conns : Disconnect(c) /\ UNCHANGED <<netvars, sidevars>>

Spec == Init /\ [][Next]_vars

\* The presence handlers alone, over both rooms: a connection can be in two
\* rooms, and the disconnect handler walks more than one room.
PresenceUsers == { MemberA, [id |-> "c2", name |-> "Cy"] }

NextRooms ==
  \/ \E c \in Conns : Connect(c) /\ UNCHANGED <<netvars, sidevars>>
  \/ \E c \in Conns, r \in Rooms, u \in PresenceUsers : JoinRoom(c, r, u) /\ UNCHANGED <<netvars, sidevars>>
  \/ \E c \in Conns, r \in Rooms, u \in PresenceUsers : LeaveRoom(c, r, u) /\ UNCHANGED <<netvars, sidevars>>
  \/ \E c \in Conns : Disconnect(c) /\ UNCHANGED <<netvars, sidevars>>

SpecRooms == Init /\ [][NextRooms]_vars

\* The five handlers that name a room, over both rooms, with one account
\* (signed in on both connections), one url and one position.
FrameUsers == { MemberA }

NextFrame ==
  \/ \E c \in Conns : Connect(c) /\ UNCHANGED <<netvars, sidevars>>
  \/ \E c \in Conns, r \in Rooms, u \in FrameUsers :
       JoinRoom(c, r, u) /\ UNCHANGED <<netvars, sidevars>>
  \/ \E c \in Conns, r \in Rooms, u \in FrameUsers :
       LeaveRoom(c, r, u) /\ UNCHANGED <<netvars, sidevars>>
  \/ \E c \in Conns, r \in Rooms :
       SyncUrl(c, r, PlainUrl, 0) /\ UNCHANGED <<netvars, sidevars>>
  \/ \E c \in Conns, r \in Rooms, p \in BOOLEAN :
       VideoStateChange(c, r, p, 0) /\ UNCHANGED <<netvars, sidevars>>
  \/ \E c \in Conns, r \in Rooms :
       ChatMessage(c, r, "hi", MemberA) /\ UNCHANGED <<netvars, sidevars>>

SpecFrame == Init /\ [][NextFrame]_vars

\* One room with two accounts: the handlers that create, delete, read and
\* write a room's playback state, with one url and one position.
NextLife ==
  \/ \E c \in Conns : Connect(c) /\ UNCHANGED <<netvars, sidevars>>
  \/ \E c \in Conns, r \in MainRooms, u \in PresenceUsers :
       JoinRoom(c, r, u) /\ UNCHANGED <<netvars, sidevars>>
  \/ \E c \in Conns, r \in MainRooms, u \in PresenceUsers :
       LeaveRoom(c, r, u) /\ UNCHANGED <<netvars, sidevars>>
  \/ \E c \in Conns, r \in MainRooms :
       SyncUrl(c, r, PlainUrl, 0) /\ UNCHANGED <<netvars, sidevars>>
  \/ \E c \in Conns, r \in MainRooms, p \in BOOLEAN :
       VideoStateChange(c, r, p, 0) /\ UNCHANGED <<netvars, sidevars>>
  \/ \E c \in Conns, r \in MainRooms :
       RequestVideoState(c, r) /\ UNCHANGED <<netvars, sidevars>>

SpecLife == Init /\ [][NextLife]_vars

\* One room; account A may come with either of two display names.
NameUsers == { MemberA, [id |-> "A", name |-> "Anna"], MemberB }

NextNames ==
  \/ \E c \in Conns : Connect(c) /\ UNCHANGED <<netvars, sidevars>>
  \/ \E c \in Conns, r \in MainRooms, u \in NameUsers :
       JoinRoom(c, r, u) /\ UNCHANGED <<netvars, sidevars>>
  \/ \E c \in Conns, r \in MainRooms, u \in NameUsers :
       LeaveRoom(c, r, u) /\ UNCHANGED <<netvars, sidevars>>
  \/ \E c \in Conns : Disconnect(c) /\ UNCHANGED <<netvars, sidevars>>

SpecNames == Init /\ [][NextNames]_vars

\* ------------------------------------ the watch page of one client
\* Positions are whole seconds.
MaxPosition == 4

Positions == 0..MaxPosition

\* const SYNC_THRESHOLD = 2; // seconds
SYNC_THRESHOLD == 2

Abs(x) == IF x < 0 THEN -x ELSE x

\* Variant: a difference of exactly the threshold already counts.
needsSyncInclusive(currentTime, targetTime) ==
  Abs(currentTime - targetTime) >= SYNC_THRESHOLD

\* Math.abs(currentTime - targetTime) > SYNC_THRESHOLD
needsSync(currentTime, targetTime) ==
  Abs(currentTime - targetTime) > SYNC_THRESHOLD

\* What a socket handler of the page records: the event, its position, and a
\* bit that flips with every event received.
Got(ev, timestamp) == [ev |-> ev, timestamp |-> timestamp, n |-> 1 - player.got.n]

\* A step of the page leaves the server as it is.
ServerIdle ==
  UNCHANGED <<status, sockRooms, rooms, out, last, owner, presence, prevReport,
              scen, lastPlay, race, netvars, thrown, joinedAs, appvars>>

\* socket.onUrlChange: setUrl(url); playerRef.current.seekTo(timestamp)
OnUrlChange(url, timestamp) ==
  /\ player' = [player EXCEPT !.url = url, !.currentTime = timestamp,
                              !.sought = TRUE, !.got = Got("url-changed", timestamp)]
  /\ ServerIdle

\* socket.onVideoStateUpdate: the handler reads the `seeking` its closure
\* captured when the effect subscribed it (the effect depends on
\* socket?.isConnected only).
OnVideoStateUpdate(isPlaying, timestamp) ==
  /\ player' =
       IF ~player.captured
         THEN IF needsSync(player.currentTime, timestamp)
                THEN [player EXCEPT !.isPlaying = isPlaying, !.currentTime = timestamp,
                                    !.sought = TRUE,
                                    !.got = Got("video-state-updated", timestamp)]
                ELSE [player EXCEPT !.isPlaying = isPlaying, !.sought = FALSE,
                                    !.got = Got("video-state-updated", timestamp)]
         ELSE [player EXCEPT !.sought = FALSE,
                             !.got = Got("video-state-updated", timestamp)]
  /\ ServerIdle

\* handleSeek: the user drags the local player to `seconds`.
HandleSeek(seconds) ==
  /\ ~player.seeking
  /\ player' = [player EXCEPT !.seeking = TRUE, !.currentTime = seconds,
                              !.sought = FALSE]
  /\ ServerIdle

\* setTimeout(() => setSeeking(false), 1000)
SeekTimeout ==
  /\ player.seeking
  /\ player' = [player EXCEPT !.seeking = FALSE, !.sought = FALSE]
  /\ ServerIdle

\* The subscribing effect runs again (the socket reconnected) and its
\* handlers capture the current `seeking`.
Resubscribe ==
  /\ player.captured # player.seeking
  /\ player' = [player EXCEPT !.captured = player.seeking, !.sought = FALSE]
  /\ ServerIdle

\* The local player plays on by a second.
PlayerProgress ==
  /\ player.isPlaying
  /\ player.currentTime < MaxPosition
  /\ player' = [player EXCEPT !.currentTime = @ + 1, !.sought = FALSE]
  /\ ServerIdle

NextPlayer ==
  \/ \E t \in Positions : OnUrlChange(PlainUrl, t)
  \/ \E p \in BOOLEAN, t \in Positions : OnVideoStateUpdate(p, t)
  \/ \E t \in Positions : HandleSeek(t)
  \/ SeekTimeout
  \/ Resubscribe
  \/ PlayerProgress

SpecPlayer == Init /\ [][NextPlayer]_vars

\* --------------------------------- who joined as whom (history only)
JoinedAsAfterJoin(c, roomId, user) ==
  joinedAs' = [joinedAs EXCEPT ![c][roomId] = user.id]

JoinedAsAfterLeave(c, roomId) ==
  joinedAs' = [joinedAs EXCEPT ![c][roomId] = NoMember]

\* The presence handlers of one room with the join history.
NextBind ==
  \/ \E c \in Conns : Connect(c) /\ UNCHANGED <<netvars, sidevars>>
  \/ \E c \in Conns, r \in MainRooms, u \in PresenceUsers :
       JoinRoom(c, r, u) /\ JoinedAsAfterJoin(c, r, u)
         /\ UNCHANGED <<netvars, thrown, player, appvars>>
  \/ \E c \in Conns, r \in MainRooms, u \in PresenceUsers :
       LeaveRoom(c, r, u) /\ JoinedAsAfterLeave(c, r)
         /\ UNCHANGED <<netvars, thrown, player, appvars>>
  \/ \E c \in Conns : Disconnect(c) /\ UNCHANGED <<netvars, sidevars>>

SpecBind == Init /\ [][NextBind]_vars

\* ------------------------------------------- events without a `user` field
\* join-room with a payload { roomId }: `user` is undefined.  Lines 119-127
\* run, then `user.id` at line 128 throws a TypeError that nothing catches;
\* nothing has been emitted yet.
JoinRoomNoUser(c, roomId) ==
  /\ status[c] = "connected"
  /\ sockRooms' = [sockRooms EXCEPT ![c] = @ \cup {roomId}]
  /\ rooms' = GetOrCreate(rooms, roomId)
  /\ out' = <<>>
  /\ thrown' = "TypeError"
  /\ last' = [op |-> "join-room", conn |-> c, roomId |-> roomId]
  /\ prevReport' = "none"
  /\ scen' = -1
  /\ race' = NoRace
  /\ UNCHANGED <<status, owner, presence, lastPlay, netvars, joinedAs, player, appvars>>

\* leave-room with a payload { roomId }: socket.leave runs, then `user.id` at
\* line 147 throws if the room has a record, and `user.name` at line 162
\* throws if it has none.
LeaveRoomNoUser(c, roomId) ==
  /\ status[c] = "connected"
  /\ sockRooms' = [sockRooms EXCEPT ![c] = @ \ {roomId}]
  /\ out' = <<>>
  /\ thrown' = "TypeError"
  /\ last' = [op |-> "leave-room", conn |-> c, roomId |-> roomId]
  /\ prevReport' = "none"
  /\ scen' = -1
  /\ race' = NoRace
  /\ UNCHANGED <<status, rooms, owner, presence, lastPlay, netvars, joinedAs, player, appvars>>

\* An exception that escapes a handler ends the server process: no handler
\* runs after it.
NextMalformed ==
  \/ \E c \in Conns : thrown = "none" /\ Connect(c) /\ UNCHANGED <<netvars, sidevars>>
  \/ \E c \in Conns, r \in MainRooms, u \in PresenceUsers :
       thrown = "none" /\ JoinRoom(c, r, u) /\ UNCHANGED <<netvars, sidevars>>
  \/ \E c \in Conns, r \in MainRooms, u \in PresenceUsers :
       thrown = "none" /\ LeaveRoom(c, r, u) /\ UNCHANGED <<netvars, sidevars>>
  \/ \E c \in Conns : thrown = "none" /\ Disconnect(c) /\ UNCHANGED <<netvars, sidevars>>
  \/ \E c \in Conns, r \in MainRooms : thrown = "none" /\ JoinRoomNoUser(c, r)
  \/ \E c \in Conns, r \in MainRooms : thrown = "none" /\ LeaveRoomNoUser(c, r)

SpecMalformed == Init /\ [][NextMalformed]_vars

\* ------------------------------------------------- delivery to the clients
MaxCommits == 4

\* The presence notifications among `emitted` that are addressed to c, in
\* emission order, stamped with commit number n.
Notes(c, emitted, n) ==
  LET mine == SelectSeq(emitted, LAMBDA e : /\ e.ev \in {"member-joined", "member-left"}
                                            /\ c \in e.to)
  IN [i \in 1..Len(mine) |-> [ev |-> mine[i].ev, id |-> mine[i].data.id, n |-> n]]

\* Variant: a transport that hands over the newest packet first.
TransportNewestFirst(queue, notes) == notes \o queue

\* transports: ['websocket']: one ordered stream per connection.
Transport(queue, notes) == queue \o notes

\* The emissions of the handler that has just run are handed to the transport
\* of each open connection; a closed connection receives nothing more.
Posted ==
  /\ commits' = commits + 1
  /\ inbox' = [c \in Conns |->
                IF status'[c] = "connected"
                  THEN Transport(inbox[c], Notes(c, out', commits'))
                  ELSE <<>>]
  /\ UNCHANGED <<seen, sidevars>>

\* The client of connection c receives its oldest notification in flight.
Receive(c) ==
  /\ status[c] = "connected"
  /\ inbox[c] # <<>>
  /\ LET m == Head(inbox[c])
     IN seen' = [seen EXCEPT ![c][m.id] =
                   IF m.ev = "member-left" THEN [@ EXCEPT !.left = m.n]
                                           ELSE [@ EXCEPT !.joined = m.n]]
  /\ inbox' = [inbox EXCEPT ![c] = Tail(@)]
  /\ UNCHANGED <<status, sockRooms, rooms, out, last, owner, presence, prevReport,
                 scen, lastPlay, race, commits, sidevars>>

NextOrder ==
  \/ \E c \in Conns : Connect(c) /\ UNCHANGED <<netvars, sidevars>>
  \/ \E c \in Conns, r \in MainRooms, u \in PresenceUsers :
       commits < MaxCommits /\ JoinRoom(c, r, u) /\ Posted
  \/ \E c \in Conns, r \in MainRooms, u \in PresenceUsers :
       commits < MaxCommits /\ LeaveRoom(c, r, u) /\ Posted
  \/ \E c \in Conns : commits < MaxCommits /\ Disconnect(c) /\ Posted
  \/ \E c \in Conns : Receive(c)

SpecOrder == Init /\ [][NextOrder]_vars

\* ------------------------------------------------------------- properties
\* The member entries of roomId (empty when the room has no record).
RoomMembers(roomId) ==
  IF MapHas(rooms, roomId) THEN MapGet(rooms, roomId).members ELSE <<>>

\* The emissions of the last handler that were delivered to connection c.
Delivered(c) == SelectSeq(out, LAMBDA e : c \in e.to)

Emitted(ev) == SelectSeq(out, LAMBDA e : e.ev = ev)

SeqElems(q) == { q[i] : i \in 1..Len(q) }

\* C1: after the disconnect of a connection, no room holds a member entry
\* that the connection's join-room wrote, whatever member id it joined with,
\* and no room record is left empty.
C1_DisconnectCleanup ==
  last.op = "disconnect" =>
    /\ \A r \in Rooms, id \in MemberIds : owner[r][id] # last.conn
    /\ \A i \in 1..Len(rooms) : Len(rooms[i].v.members) > 0

\* C2: a room has a record in the directory if and only if it has a member:
\* no record has an empty membership Map, and a room has a record exactly
\* when some member id's last presence event in it is a join.
C2_RecordIffMembers ==
  /\ \A i \in 1..Len(rooms) : Len(rooms[i].v.members) > 0
  /\ \A r \in Rooms : MapHas(rooms, r) <=> presence[r] # {}

\* A leave-room of the last member has just deleted the room's record.
C2_Witness ==
  /\ last.op = "leave-room"
  /\ Len(Emitted("member-left")) = 1
  /\ ~MapHas(rooms, last.roomId)

\* C3: the membership of a room is exactly the set of member ids whose most
\* recent presence event (join-room, or leave-room / removal on disconnect)
\* is a join, each id once: its size is joins minus leaves per distinct id.
C3_MembershipIsLastJoins ==
  \A r \in Rooms :
    /\ MapKeys(RoomMembers(r)) = presence[r]
    /\ Len(RoomMembers(r)) = Cardinality(presence[r])

\* A leave-room has removed the first of three members.
C3_Witness ==
  /\ last.op = "leave-room"
  /\ Len(Emitted("room-state")) = 1
  /\ MapKeys(RoomMembers(last.roomId)) = MemberIds \ {last.user.id}
  /\ RoomMembers(last.roomId)[1].k = "c2"

\* C4: the room-state sent on join-room(R, M) is R's membership at the end of
\* the join, and contains M.
C4_JoinSnapshotIncludesJoiner ==
  last.op = "join-room" =>
    /\ \E e \in SeqElems(Emitted("room-state")) : last.conn \in e.to
    /\ \A e \in SeqElems(Emitted("room-state")) :
         /\ e.data.members = MapValues(RoomMembers(last.roomId))
         /\ last.user \in SeqElems(e.data.members)

\* A join into a room that already had another member.
C4_Witness ==
  /\ last.op = "join-room"
  /\ Len(RoomMembers(last.roomId)) >= 2
  /\ Len(Delivered(last.conn)) = 1

\* C5: on join-room(R, M) from c, room-state is delivered to c only, and one
\* member-joined{M} is delivered to every other connection in R's broadcast
\* group and not to c.
C5_JoinDeliveries ==
  last.op = "join-room" =>
    /\ \A e \in SeqElems(Emitted("room-state")) : e.to = {last.conn}
    /\ Len(Emitted("member-joined")) = 1
    /\ \A e \in SeqElems(Emitted("member-joined")) :
         /\ e.data = last.user
         /\ e.to = Group(sockRooms, last.roomId) \ {last.conn}
    /\ \A e \in SeqElems(Delivered(last.conn)) : e.ev = "room-state"

\* A join while another connection is in the room's broadcast group.
C5_Witness ==
  /\ last.op = "join-room"
  /\ Group(sockRooms, last.roomId) \ {last.conn} # {}
  /\ \E c \in Conns \ {last.conn} : Len(Delivered(c)) = 1

\* C6: a member-left about a departing member is never delivered to the
\* connection that owns that member (the one whose join-room wrote its entry).
C6_MemberLeftNotToOwner ==
  [][\A i \in 1..Len(out') :
       out'[i].ev = "member-left" =>
         owner[out'[i].roomId][out'[i].data.id] \notin out'[i].to]_vars

\* The membership of r was changed by the step and is not empty afterwards.
ChangedNonEmpty(r) ==
  /\ RoomMembers(r)' # RoomMembers(r)
  /\ RoomMembers(r)' # <<>>

\* Emission i of the step is a room-state about room r: broadcast to r, or
\* sent directly by a handler whose event names r.
SnapshotOf(i, r) ==
  /\ out'[i].ev = "room-state"
  /\ \/ out'[i].roomId = r
     \/ out'[i].roomId = "" /\ last'.roomId = r

\* Every connection in r's broadcast group after the step is delivered a
\* room-state about r by the step, and every room-state about r of the step
\* lists exactly r's membership after the step.
SnapshotToAll(r) ==
  /\ \A c \in Group(sockRooms', r) :
       \E i \in 1..Len(out') : SnapshotOf(i, r) /\ c \in out'[i].to
  /\ \A i \in 1..Len(out') :
       SnapshotOf(i, r) => out'[i].data.members = MapValues(RoomMembers(r)')

\* C7 as stated: after every membership change (join, leave or disconnect)
\* that leaves R non-empty, every connection in R receives an identical
\* room-state snapshot of R's membership.
C7_SnapshotAfterEveryChange ==
  [][\A r \in Rooms : ChangedNonEmpty(r) => SnapshotToAll(r)]_vars

\* C7 amended: after every leave-room or disconnect that removes a member of
\* R and leaves R non-empty, every connection in R's broadcast group receives
\* a room-state snapshot, and all these snapshots equal R's membership.
C7_SnapshotAfterRemoval ==
  [][\A r \in Rooms :
       (last'.op \in {"leave-room", "disconnect"} /\ ChangedNonEmpty(r))
         => SnapshotToAll(r)]_vars

\* A disconnect has removed a member and the re-sync snapshot reached a
\* remaining connection.
C7_Witness ==
  /\ last.op = "disconnect"
  /\ \E e \in SeqElems(Emitted("room-state")) :
       /\ e.to # {}
       /\ e.data.members = MapValues(RoomMembers(e.roomId))
       /\ e.data.members # <<>>

\* Connection c is in room r with exactly one other member, each of the two
\* connections owning one of the two member entries.
PairedIn(c, r) ==
  /\ status[c] = "connected"
  /\ r \in sockRooms[c]
  /\ Len(RoomMembers(r)) = 2
  /\ \E d \in Conns \ {c} :
       /\ r \in sockRooms[d]
       /\ { owner[r][id] : id \in MapKeys(RoomMembers(r)) } = {c, d}

\* C8: when a connection that is in R with exactly one other member
\* disconnects, the other connection receives exactly one member-left, and
\* the membership it then observes has size 1.
C8_DisconnectWithOneOther ==
  [][\A c \in Conns, r \in Rooms :
       (PairedIn(c, r) /\ last'.op = "disconnect" /\ last'.conn = c) =>
         /\ Len(RoomMembers(r)') = 1
         /\ \A d \in Conns \ {c} :
              r \in sockRooms[d] =>
                /\ Cardinality({ i \in 1..Len(out') :
                       out'[i].ev = "member-left" /\ d \in out'[i].to }) = 1
                /\ \A i \in 1..Len(out') :
                     (out'[i].ev = "room-state" /\ d \in out'[i].to)
                        => Len(out'[i].data.members) = 1]_vars

\* C9: the end-to-end scenario, stage by stage.
C9_Scenario ==
  /\ scen = 1 =>
       /\ Len(Delivered("c1")) = 1
       /\ Delivered("c1")[1].ev = "room-state"
       /\ Delivered("c1")[1].data.members = <<MemberA>>
  /\ scen = 2 =>
       /\ Len(Delivered("c2")) = 1
       /\ Delivered("c2")[1].ev = "room-state"
       /\ Delivered("c2")[1].data.members = <<MemberA, MemberB>>
       /\ Len(Delivered("c1")) = 1
       /\ Delivered("c1")[1].ev = "member-joined"
       /\ Delivered("c1")[1].data = MemberB
  /\ scen = 3 =>
       /\ Len(Delivered("c2")) = 1
       /\ Delivered("c2")[1].ev = "url-changed"
       /\ Delivered("c2")[1].data = [url |-> PlainUrl, timestamp |-> 0]
       /\ Delivered("c1") = <<>>
  /\ scen = 4 =>
       /\ \E e \in SeqElems(Delivered("c1")) : e.ev = "member-left" /\ e.data = MemberB
       /\ MapValues(RoomMembers("abc")) = <<MemberA>>
  /\ scen = 5 => ~MapHas(rooms, "abc")

Playback(roomId) ==
  IF MapHas(rooms, roomId) THEN MapGet(rooms, roomId).videoState ELSE <<>>

\* The handled event names a room that has a record and whose broadcast group
\* contains the sender.
SenderBound ==
  /\ last.roomId \in sockRooms[last.conn]
  /\ MapHas(rooms, last.roomId)

C12_ReportForwarded ==
  (last.op = "video-state-change" /\ last.roomId \in sockRooms[last.conn]) =>
    /\ Len(out) = 1
    /\ out[1].ev = "video-state-updated"
    /\ out[1].data = [isPlaying |-> last.isPlaying, timestamp |-> last.timestamp]
    /\ \A c \in Conns :
         Len(Delivered(c)) =
           IF c # last.conn /\ last.roomId \in sockRooms[c] THEN 1 ELSE 0

\* A report reached an observer while the room has no playback state at all.
C12_Witness ==
  /\ last.op = "video-state-change"
  /\ last.roomId \in sockRooms[last.conn]
  /\ MapHas(rooms, last.roomId)
  /\ Playback(last.roomId) = <<>>
  /\ \E c \in Conns \ {last.conn} : Len(Delivered(c)) = 1

\* C13: after a video-state-change for an existing room, the room has a
\* playback state holding the reported isPlaying and position (created with
\* an empty url if there was none).
C13_ReportCreatesState ==
  (last.op = "video-state-change" /\ MapHas(rooms, last.roomId)) =>
    /\ Playback(last.roomId) # <<>>
    /\ Playback(last.roomId)[1].isPlaying = last.isPlaying
    /\ Playback(last.roomId)[1].timestamp = last.timestamp

\* C14: request-video-state changes no state; it sends nothing when the room
\* has no playback state, and otherwise exactly one video-state-updated, to
\* the requester alone, carrying the isPlaying and position of the sync-url
\* or video-state-change handled last for that room.
C14_RequestAnswered ==
  [][ last'.op = "request-video-state" =>
        /\ rooms' = rooms
        /\ sockRooms' = sockRooms
        /\ IF Playback(last'.roomId) = <<>>
             THEN out' = <<>>
             ELSE /\ Len(out') = 1
                  /\ out'[1].ev = "video-state-updated"
                  /\ out'[1].to = {last'.conn}
                  /\ lastPlay[last'.roomId] # <<>>
                  /\ out'[1].data.isPlaying = lastPlay[last'.roomId][1].isPlaying
                  /\ out'[1].data.timestamp = lastPlay[last'.roomId][1].timestamp ]_vars

\* A request was answered with a paused state at position 1 while another
\* connection is in the room: the values come from a video-state-change, not
\* from the sync-url that created the state.
C14_Witness ==
  /\ last.op = "request-video-state"
  /\ Len(out) = 1
  /\ out[1].data.isPlaying = FALSE
  /\ out[1].data.timestamp = 1
  /\ Cardinality(Group(sockRooms, last.roomId)) = 2

\* C15: a chat-message from a connection bound to R delivers exactly one
\* new-message, with the text and member of the event, to every connection of
\* R, the sender included, and to nobody else; memberships and playback
\* states stay as they were.
C15_ChatToWholeRoom ==
  [][ (last'.op = "chat-message" /\ last'.roomId \in sockRooms[last'.conn]) =>
        /\ rooms' = rooms
        /\ sockRooms' = sockRooms
        /\ Len(out') = 1
        /\ out'[1].ev = "new-message"
        /\ out'[1].data = [user |-> last'.user, text |-> last'.message]
        /\ out'[1].to = Group(sockRooms, last'.roomId)
        /\ last'.conn \in out'[1].to ]_vars

\* A message was delivered to its sender and to the other connection of the
\* room, which holds two members and a playback state.
C15_Witness ==
  /\ last.op = "chat-message"
  /\ last.roomId \in sockRooms[last.conn]
  /\ Len(out) = 1
  /\ out[1].to = Conns
  /\ Cardinality(MapKeys(RoomMembers(last.roomId))) = 2
  /\ Playback(last.roomId) # <<>>

\* The rooms in which some member entry was written by connection c.
MemberRooms(c) ==
  { r \in Rooms : \E id \in MapKeys(RoomMembers(r)) : owner[r][id] = c }

\* C18: a connection holds at most one room membership: it is in the
\* broadcast group of at most one room and has a member entry in at most one
\* room (a join into a second room takes it out of the first in the same
\* step).
C18_OneMembership ==
  \A c \in Conns :
    /\ Cardinality(sockRooms[c]) <= 1
    /\ Cardinality(MemberRooms(c)) <= 1

\* C19: a sync-url or video-state-change naming a room whose broadcast group
\* does not contain the sender changes no room state and is delivered to no
\* connection.
C19_UnboundPlaybackIgnored ==
  [][ ( /\ last'.op \in {"sync-url", "video-state-change"}
        /\ last'.roomId \notin sockRooms[last'.conn] ) =>
        /\ rooms' = rooms
        /\ \A i \in 1..Len(out') : out'[i].to = {} ]_vars

\* C20: a chat-message naming a room whose broadcast group does not contain
\* the sender delivers no new-message to any connection.
C20_UnboundChatIgnored ==
  (last.op = "chat-message" /\ last.roomId \notin sockRooms[last.conn]) =>
    \A c \in Conns : Delivered(c) = <<>>

\* C16: when a leave-room by the only member of R and a join-room into R from
\* another connection have both been handled, in either order, R has a record
\* in the directory and the joiner's member is in its membership.
C16_JoinSurvivesLastLeave ==
  race.stage = "both" =>
    /\ MapHas(rooms, race.room)
    /\ race.jid \in MapKeys(RoomMembers(race.room))

SomethingDelivered == \E i \in 1..Len(out) : out[i].to # {}

\* C21: a leave-room(R, M) for an M that is not in R's membership changes no
\* room record and delivers neither a member-left nor a room-state.
C21_LeaveOfNonMember ==
  [][ ( /\ last'.op = "leave-room"
        /\ last'.user.id \notin MapKeys(RoomMembers(last'.roomId)) ) =>
        /\ rooms' = rooms
        /\ ~SomethingDelivered' ]_vars

\* C22: a leave-room, sync-url, video-state-change, request-video-state or
\* chat-message naming a room that has no record creates no record, changes
\* no room state and delivers nothing to any connection.
C22_NoRecordNoEffect ==
  [][ ( /\ last'.op \in {"leave-room", "sync-url", "video-state-change",
                         "request-video-state", "chat-message"}
        /\ ~MapHas(rooms, last'.roomId) ) =>
        /\ rooms' = rooms
        /\ ~SomethingDelivered' ]_vars

\* C23: a join-room or leave-room whose payload has no `user` is ignored: no
\* exception escapes the handler, no room record is created or changed, and
\* nothing is delivered to any connection.
C23_NoUserIgnored ==
  [][ ( /\ last'.op \in {"join-room", "leave-room"}
        /\ "user" \notin DOMAIN last' ) =>
        /\ thrown' = "none"
        /\ rooms' = rooms
        /\ ~SomethingDelivered' ]_vars

\* Connection c is in r2's broadcast group and, before and after the step,
\* not in the group of the room the handled event names.
OnlyInOther(c, r2) ==
  /\ r2 \in sockRooms'[c]
  /\ last'.roomId \notin sockRooms[c]
  /\ last'.roomId \notin sockRooms'[c]

\* C24: a join-room, leave-room, sync-url, video-state-change or chat-message
\* naming room R leaves the record, membership and playback state of every
\* other room as they were, and delivers nothing to a connection that is in
\* another room and not in R.
C24_OtherRoomsUntouched ==
  [][ last'.op \in {"join-room", "leave-room", "sync-url", "video-state-change",
                    "chat-message"} =>
        \A r2 \in Rooms \ {last'.roomId} :
          /\ MapHas(rooms', r2) = MapHas(rooms, r2)
          /\ RoomMembers(r2)' = RoomMembers(r2)
          /\ Playback(r2)' = Playback(r2)
          /\ \A c \in Conns : OnlyInOther(c, r2) => Delivered(c)' = <<>> ]_vars

\* A chat-message for abc was delivered in abc while the other connection is
\* in r2 only, and r2 has a member and a playback state.
C24_Witness ==
  /\ last.op = "chat-message"
  /\ last.roomId = "abc"
  /\ Delivered(last.conn) # <<>>
  /\ \E c \in Conns : sockRooms[c] = {"r2"} /\ Delivered(c) = <<>>
  /\ RoomMembers("r2") # <<>>
  /\ Playback("r2") # <<>>

\* The number of entries of a member list or of a Map with the given id.
CountId(members, id) ==
  Cardinality({ i \in 1..Len(members) :
                  IF "k" \in DOMAIN members[i] THEN members[i].k = id
                                               ELSE members[i].id = id })

\* The member entries of roomId in the table rs.
MembersIn(rs, roomId) ==
  IF MapHas(rs, roomId) THEN MapGet(rs, roomId).members ELSE <<>>

\* Some other connection is closed and had last joined roomId as id.
DroppedAs(c, roomId, id) ==
  \E d \in Conns \ {c} : status[d] = "closed" /\ joinedAs[d][roomId] = id

\* C25: when a member whose connection was dropped joins the room again on
\* another connection with the same id, that connection is sent a room-state
\* listing exactly the room's members after the join, with the rejoining
\* member once, and the membership holds that member once.
C25_RejoinAfterDrop ==
  [][ ( /\ last'.op = "join-room"
        /\ DroppedAs(last'.conn, last'.roomId, last'.user.id) ) =>
        LET snaps == SelectSeq(out', LAMBDA e : /\ e.ev = "room-state"
                                                /\ last'.conn \in e.to)
        IN /\ Len(snaps) = 1
           /\ snaps[1].to = {last'.conn}
           /\ snaps[1].data.members = MapValues(MembersIn(rooms', last'.roomId))
           /\ CountId(snaps[1].data.members, last'.user.id) = 1
           /\ CountId(MembersIn(rooms', last'.roomId), last'.user.id) = 1 ]_vars

\* A rejoin under the id of a closed connection into a room of two members.
C25_Witness ==
  /\ last.op = "join-room"
  /\ DroppedAs(last.conn, last.roomId, last.user.id)
  /\ Len(RoomMembers(last.roomId)) = 2
  /\ Len(Delivered(last.conn)) = 1
  /\ Len(Delivered(last.conn)[1].data.members) = 2

\* C30: for every room, a live connection is in the room's broadcast group
\* exactly when the member id it joined the room with is in the room's
\* membership, and every listed member id is the id some live connection in
\* the group joined with.
C30_GroupMatchesMembership ==
  \A r \in Rooms :
    /\ \A c \in Conns : status[c] = "connected" =>
         ( r \in sockRooms[c] <=>
             /\ joinedAs[c][r] # NoMember
             /\ joinedAs[c][r] \in MapKeys(RoomMembers(r)) )
    /\ \A id \in MapKeys(RoomMembers(r)) :
         \E c \in Conns : /\ status[c] = "connected"
                          /\ r \in sockRooms[c]
                          /\ joinedAs[c][r] = id

\* C28: when leave-room(R, M) is sent for an M that is in R's membership:
\* if other members remain, exactly member-left{M} and then a room-state are
\* emitted for R, and the room-state lists the remaining members, M not among
\* them; if none remains, R's record is deleted and no room-state is emitted.
C28_LeaveOrder ==
  [][ ( /\ last'.op = "leave-room"
        /\ last'.user.id \in MapKeys(RoomMembers(last'.roomId)) ) =>
        LET evs == SelectSeq(out', LAMBDA e : e.roomId = last'.roomId)
        IN IF Len(MembersIn(rooms, last'.roomId)) > 1
             THEN /\ Len(evs) = 2
                  /\ evs[1].ev = "member-left"
                  /\ evs[1].data = last'.user
                  /\ evs[2].ev = "room-state"
                  /\ evs[2].data.members = MapValues(MembersIn(rooms', last'.roomId))
                  /\ CountId(evs[2].data.members, last'.user.id) = 0
             ELSE /\ ~MapHas(rooms', last'.roomId)
                  /\ \A i \in 1..Len(out') : out'[i].ev # "room-state" ]_vars

\* A leave after which one member remains and the other connection was sent
\* member-left and then room-state.
C28_Witness ==
  /\ last.op = "leave-room"
  /\ Len(RoomMembers(last.roomId)) = 1
  /\ \E c \in Conns \ {last.conn} :
       /\ Len(Delivered(c)) = 2
       /\ Delivered(c)[1].ev = "member-left"
       /\ Delivered(c)[1].data.id \notin MapKeys(RoomMembers(last.roomId))
       /\ Delivered(c)[2].ev = "room-state"

\* C26: a join-room or leave-room after which the room still has the record
\* it had before leaves the room's playback state as it was; a room whose
\* record was deleted or has just been created has no playback state; and a
\* room without a playback state gets one only from a sync-url, until which
\* a request-video-state is not answered.
C26_PlaybackLivesWithRoom ==
  [][ \A r \in Rooms :
        /\ ( last'.op \in {"join-room", "leave-room"} /\ last'.roomId = r ) =>
             IF MapHas(rooms, r) /\ MapHas(rooms', r)
               THEN Playback(r)' = Playback(r)
               ELSE Playback(r)' = <<>>
        /\ ( Playback(r) = <<>> /\ Playback(r)' # <<>> ) =>
             ( last'.op = "sync-url" /\ last'.roomId = r )
        /\ ( last'.op = "request-video-state" /\ last'.roomId = r
             /\ Playback(r) = <<>> ) => out' = <<>> ]_vars

\* A member has just left a room that keeps another member and still has the
\* paused playback state a video-state-change stored before.
C26_Witness ==
  /\ last.op = "leave-room"
  /\ Len(RoomMembers(last.roomId)) = 1
  /\ last.user.id \notin MapKeys(RoomMembers(last.roomId))
  /\ owner[last.roomId][last.user.id] = NoConn
  /\ presence[last.roomId] # {}
  /\ Playback(last.roomId) # <<>>
  /\ Playback(last.roomId)[1].isPlaying = FALSE

\* C27: a join-room with an id that is already in the room's membership keeps
\* the membership's size and ids, stores the member record of this join under
\* the id, and sends the joiner a snapshot with the record of this join; and
\* no room-state ever lists an id twice.
C27_JoinIdempotentInId ==
  [][ /\ ( /\ last'.op = "join-room"
           /\ last'.user.id \in MapKeys(RoomMembers(last'.roomId)) ) =>
           /\ Len(MembersIn(rooms', last'.roomId)) = Len(MembersIn(rooms, last'.roomId))
           /\ MapKeys(MembersIn(rooms', last'.roomId)) =
                MapKeys(MembersIn(rooms, last'.roomId))
           /\ MapGet(MembersIn(rooms', last'.roomId), last'.user.id) = last'.user
           /\ \E i \in 1..Len(out') :
                /\ out'[i].ev = "room-state"
                /\ last'.user \in SeqElems(out'[i].data.members)
      /\ \A i \in 1..Len(out') : out'[i].ev = "room-state" =>
           \A id \in MemberIds : CountId(out'[i].data.members, id) <= 1 ]_vars

\* A joined as "Ann" before B did and has just joined again as "Anna": the
\* entry kept its place and holds the new name.
C27_Witness ==
  /\ last.op = "join-room"
  /\ last.user = [id |-> "A", name |-> "Anna"]
  /\ MapValues(RoomMembers(last.roomId)) = << [id |-> "A", name |-> "Anna"], MemberB >>

\* The handler that ran last on the page was a socket handler.
Received == player'.got.n # player.got.n

\* The distance between the local position and the position just received.
Drift == Abs(player.currentTime - player'.got.timestamp)

C31_LeaveRemovesOwnMember ==
  [][ last'.op = "leave-room" =>
        \A id \in MapKeys(MembersIn(rooms, last'.roomId)) :
          id \notin MapKeys(MembersIn(rooms', last'.roomId)) =>
            owner[last'.roomId][id] = last'.conn ]_vars

\* -------------------------------------------------- the url normalisation
\* The urls a client may send in sync-url: one that new URL() rejects, one of
\* another site, youtu.be links with and without an id, youtube.com links
\* with and without `v`, on /watch and elsewhere, and a mobile-site link.
WatchUrl == [parsed |-> TRUE, host |-> "www.youtube.com", path |-> <<"watch">>, v |-> "id1"]

NormUrls ==
  InputUrls \cup
  { EmptyUrl,
    [parsed |-> TRUE, host |-> "youtu.be", path |-> <<>>, v |-> ""],
    WatchUrl,
    [parsed |-> TRUE, host |-> "youtube.com", path |-> <<"watch">>, v |-> ""],
    [parsed |-> TRUE, host |-> "youtube.com", path |-> <<"watch">>, v |-> NestedId],
    [parsed |-> TRUE, host |-> "www.youtube.com", path |-> <<"playlist">>, v |-> "id2"],
    [parsed |-> TRUE, host |-> "m.youtube.com", path |-> <<"watch">>, v |-> "id1"],
    EmbedUrl(<<"id1">>) }

\* One room; any connection joins as A and sends sync-url with any of the
\* urls above at position 0.
NextNorm ==
  \/ \E c \in Conns : Connect(c) /\ UNCHANGED <<netvars, sidevars>>
  \/ \E c \in Conns, r \in MainRooms :
       JoinRoom(c, r, MemberA) /\ UNCHANGED <<netvars, sidevars>>
  \/ \E c \in Conns, r \in MainRooms, url \in NormUrls :
       SyncUrl(c, r, url, 0) /\ UNCHANGED <<netvars, sidevars>>

SpecNorm == Init /\ [][NextNorm]_vars

\* A youtube.com watch url with a `v` parameter, or a youtu.be url.
VideoLink(url) ==
  /\ url.parsed
  /\ \/ url.host \in {"www.youtube.com", "youtube.com"} /\ url.path = <<"watch">> /\ url.v # ""
     \/ url.host = "youtu.be"

\* C38: for the url u of every sync-url, normalising the normalised url
\* changes nothing, u itself is kept when it is neither a youtube.com watch
\* url with `v` nor a youtu.be url, and the url stored in the room's playback
\* state is the url broadcast in url-changed.
C38_NormalisationLaws ==
  last.op = "sync-url" =>
    /\ convertToEmbedUrl(convertToEmbedUrl(last.url)) = convertToEmbedUrl(last.url)
    /\ ~VideoLink(last.url) => convertToEmbedUrl(last.url) = last.url
    /\ Playback(last.roomId) # <<>> => Playback(last.roomId)[1].url = out[1].data.url

\* ------------------------------------------------ the persisted-room API
\* src/src/server/api/routers/room.ts over the Room and Message tables.  Room
\* ids are generated, so one room ("abc") can come to exist and "r2" never
\* does; no procedure deletes a room.  Every `await ctx.prisma...` is one
\* database call: a procedure that reads the room and then writes is two
\* steps, and other requests may run between them.
ApiRoom == "abc"

ApiUrls == {PlainUrl, WatchUrl}

\* The Message table is kept to MaxMessages rows.
MaxMessages == 2

\* The server and the client pages take no step.
ApiOnly ==
  UNCHANGED <<status, sockRooms, rooms, out, last, owner, presence, prevReport,
              scen, lastPlay, race, netvars, thrown, joinedAs, player, pages, up, down>>

\* The response to `proc` called by user u for roomId.
Reply(proc, u, roomId, code) ==
  [proc |-> proc, user |-> u, roomId |-> roomId, code |-> code,
   tick |-> ~api.reply.tick]

\* create: the caller owns the new room and is its first participant.
Create(u) ==
  /\ ~api.exists
  /\ api' = [api EXCEPT !.exists = TRUE, !.participants = {u}, !.joined = {u},
                        !.reply = Reply("create", u, ApiRoom, "OK")]
  /\ ApiOnly

\* prisma.room.update({ where: { id } ... }) on a missing row throws, which
\* the framework reports as INTERNAL_SERVER_ERROR.
Join(u, roomId) ==
  /\ api' = IF api.exists /\ roomId = ApiRoom
              THEN [api EXCEPT !.participants = @ \cup {u}, !.joined = @ \cup {u},
                               !.reply = Reply("join", u, roomId, "OK")]
              ELSE [api EXCEPT !.reply = Reply("join", u, roomId, "INTERNAL_SERVER_ERROR")]
  /\ ApiOnly

Leave(u, roomId) ==
  /\ api' = IF api.exists /\ roomId = ApiRoom
              THEN [api EXCEPT !.participants = @ \ {u}, !.joined = @ \ {u},
                               !.reply = Reply("leave", u, roomId, "OK")]
              ELSE [api EXCEPT !.reply = Reply("leave", u, roomId, "INTERNAL_SERVER_ERROR")]
  /\ ApiOnly

\* findUnique({ include: { participants } }) and the two tests that follow.
Authorize(u, roomId) ==
  IF ~(api.exists /\ roomId = ApiRoom) THEN "NOT_FOUND"
  ELSE IF u \notin api.participants THEN "FORBIDDEN"
  ELSE "OK"

\* The first database call of updateUrl, sendMessage and getMessages: the
\* request is answered with the error, or goes on to its second call.
Begin(u, call) ==
  /\ api.pending[u] = NoCall
  /\ LET code == Authorize(u, call.roomId)
     IN api' = IF code = "OK"
                 THEN [api EXCEPT !.pending[u] = call]
                 ELSE [api EXCEPT !.reply = Reply(call.proc, u, call.roomId, code)]
  /\ ApiOnly

\* .input(z.object({ roomId: z.string(), url: z.string() }))
UpdateUrl(u, roomId, url) ==
  /\ url \in ApiUrls
  /\ Begin(u, [proc |-> "updateUrl", roomId |-> roomId, url |-> url])

\* prisma.room.update({ data: { currentUrl } })
UpdateUrlWrite(u) ==
  /\ api.pending[u].proc = "updateUrl"
  /\ api' = [api EXCEPT !.currentUrl = <<api.pending[u].url>>,
                        !.pending[u] = NoCall,
                        !.reply = Reply("updateUrl", u, api.pending[u].roomId, "OK")]
  /\ ApiOnly

SendMessage(u, roomId, text) ==
  /\ Len(api.messages) < MaxMessages
  /\ Begin(u, [proc |-> "sendMessage", roomId |-> roomId, text |-> text])

\* prisma.message.create
SendMessageWrite(u) ==
  /\ api.pending[u].proc = "sendMessage"
  /\ api' = [api EXCEPT !.messages = Append(@, [text |-> api.pending[u].text, userId |-> u]),
                        !.pending[u] = NoCall,
                        !.reply = Reply("sendMessage", u, api.pending[u].roomId, "OK")]
  /\ ApiOnly

\* .input(z.object({ roomId: z.string() }))
GetMessages(u, roomId) ==
  /\ roomId \in Rooms
  /\ Begin(u, [proc |-> "getMessages", roomId |-> roomId])

\* prisma.message.findMany
GetMessagesRead(u) ==
  /\ api.pending[u].proc = "getMessages"
  /\ api' = [api EXCEPT !.pending[u] = NoCall,
                        !.reply = Reply("getMessages", u, api.pending[u].roomId, "OK")]
  /\ ApiOnly

NextApi ==
  \/ \E u \in ApiUsers : Create(u)
  \/ \E u \in ApiUsers, r \in Rooms : Join(u, r)
  \/ \E u \in ApiUsers, r \in Rooms : Leave(u, r)
  \/ \E u \in ApiUsers, r \in Rooms, url \in ApiUrls : UpdateUrl(u, r, url)
  \/ \E u \in ApiUsers : UpdateUrlWrite(u)
  \/ \E u \in ApiUsers, r \in Rooms : SendMessage(u, r, "hi")
  \/ \E u \in ApiUsers : SendMessageWrite(u)
  \/ \E u \in ApiUsers, r \in Rooms : GetMessages(u, r)
  \/ \E u \in ApiUsers : GetMessagesRead(u)

SpecApi == Init /\ [][NextApi]_vars

\* A request was answered in this step.
Replied == api'.reply # api.reply

\* The stored room, its url and its messages.
Stored(a) == <<a.exists, a.participants, a.currentUrl, a.messages>>

\* C39: a response of updateUrl, sendMessage or getMessages is NOT_FOUND when
\* the room does not exist and FORBIDDEN when the room exists and the caller
\* is not among its participants, an error response leaves the stored url
\* and messages as they were, and a success goes only to a caller that has
\* joined (or created) the room and not left it since.
C39_GuardedProcedures ==
  [][ Replied /\ api'.reply.proc \in {"updateUrl", "sendMessage", "getMessages"} =>
        LET r == api'.reply
            found == api.exists /\ r.roomId = ApiRoom
        IN /\ ~found => r.code = "NOT_FOUND"
           /\ found /\ r.user \notin api.participants => r.code = "FORBIDDEN"
           /\ r.code # "OK" => Stored(api') = Stored(api)
           /\ r.code = "OK" => r.user \in api.joined ]_vars

\* C37: while the page's seeking flag is set, a video-state-updated it
\* receives changes neither its isPlaying flag nor its player position.
C37_SeekingShieldsPlayer ==
  [][ Received /\ player'.got.ev = "video-state-updated" /\ player.seeking =>
        /\ player'.isPlaying = player.isPlaying
        /\ player'.currentTime = player.currentTime ]_vars

\* ------------------------------------------- the socket hook and the page
\* src/src/hooks/useSocket.ts and the first WatchTogether of
\* src/src/app/watch/page.tsx, one per client, in front of the server above.
\* Events travel in order on each connection: `up` to the server, `down` to
\* the page.  A handler of the page, the render it causes and the effects of
\* that render are one step.

\* The room id in the page's roomId state.
PageRoom == "abc"

\* getCurrentUser(): every tab has its own account ...
Session == [p \in Clients |-> IF p = "p1" THEN MemberA ELSE MemberB]

\* ... or both tabs are signed in to the same account.
SharedSession == [p \in Clients |-> MemberA]

\* At most MaxInFlight events wait on a connection in either direction: a
\* user acts, and the server handles an event, only when there is room.
MaxInFlight == 2

CanSend(p) ==
  IF pages[p].conn = NoConn THEN TRUE ELSE Len(up[pages[p].conn]) < MaxInFlight

RECURSIVE SumSent(_)
SumSent(ps) ==
  IF ps = {} THEN 0
  ELSE LET p == CHOOSE q \in ps : TRUE IN pages[p].sent + SumSent(ps \ {p})

\* Every emission is appended to the queue of each connection it goes to.
Fanout(dn, emitted) ==
  [d \in Conns |-> dn[d] \o SelectSeq(emitted, LAMBDA e : d \in e.to)]

\* The server and the persisted API take no step.
PageOnly ==
  UNCHANGED <<status, sockRooms, rooms, out, last, owner, presence, prevReport,
              scen, lastPlay, race, netvars, thrown, joinedAs, player, api>>

\* useEffect(..., [url, isInRoom]): when either changed in this render and
\* the page is in a room with a url, socket.syncUrl(roomId, url, currentTime)
\* (no player is mounted in this model, so currentTime is 0).
UrlEffect(before, after) ==
  IF (after.url # before.url \/ after.isInRoom # before.isInRoom)
       /\ after.isInRoom /\ after.url # EmptyUrl
    THEN << [ev |-> "sync-url", roomId |-> PageRoom, url |-> after.url, timestamp |-> 0] >>
    ELSE <<>>

\* The page of p renders the state `after`; `emitted` are the hook calls of
\* the handler, followed by those of the url effect.  Every hook function
\* emits only `if (socket && isConnected)`.
Render(p, after, emitted) ==
  LET effect == UrlEffect(pages[p], after)
      msgs == IF after.isConnected THEN emitted \o effect ELSE <<>>
      n == IF after.isConnected THEN Len(effect) ELSE 0
  IN /\ pages' = [pages EXCEPT ![p] = [after EXCEPT !.sent = @ + n]]
     /\ up' = IF msgs = <<>> THEN up ELSE [up EXCEPT ![after.conn] = @ \o msgs]

\* The hook's socket connects (or reconnects): the server sees a new socket
\* with a new id; onConnect sets isConnected.
SocketConnect(p, c) ==
  /\ pages[p].conn = NoConn
  /\ Connect(c)
  /\ pages' = [pages EXCEPT ![p].conn = c, ![p].isConnected = TRUE]
  /\ UNCHANGED <<lastPlay, netvars, thrown, joinedAs, player, up, down, api>>

\* The transport breaks: the server runs its disconnect handler, onDisconnect
\* clears isConnected, and what was in flight on the connection is lost.
SocketDrop(p) ==
  /\ pages[p].conn # NoConn
  /\ Disconnect(pages[p].conn)
  /\ pages' = [pages EXCEPT ![p].conn = NoConn, ![p].isConnected = FALSE]
  /\ up' = [up EXCEPT ![pages[p].conn] = <<>>]
  /\ down' = [Fanout(down, out') EXCEPT ![pages[p].conn] = <<>>]
  /\ UNCHANGED <<netvars, thrown, joinedAs, player, api>>

\* The JOIN (or CREATE ROOM) button, disabled while the socket is not
\* connected: the mutation request goes to the persisted-room API.
JoinClick(p) ==
  /\ ~pages[p].isInRoom /\ pages[p].isConnected /\ ~pages[p].joining
  /\ pages' = [pages EXCEPT ![p].joining = TRUE]
  /\ UNCHANGED <<up, down>>
  /\ PageOnly

\* joinRoomMutation.onSuccess (and createRoomMutation.onSuccess), when the
\* response of the API arrives
JoinSuccess(p, user) ==
  /\ pages[p].joining
  /\ CanSend(p)
  /\ Render(p, [pages[p] EXCEPT !.members = <<user>>, !.isInRoom = TRUE,
                               !.joining = FALSE],
            << [ev |-> "join-room", roomId |-> PageRoom, user |-> user] >>)
  /\ UNCHANGED down
  /\ PageOnly

\* leaveRoomMutation.onSuccess
LeaveSuccess(p, user) ==
  /\ pages[p].isInRoom
  /\ CanSend(p)
  /\ Render(p, [pages[p] EXCEPT !.members = <<>>, !.isInRoom = FALSE, !.url = EmptyUrl],
            << [ev |-> "leave-room", roomId |-> PageRoom, user |-> user] >>)
  /\ UNCHANGED down
  /\ PageOnly

\* The url input (disabled unless in a room and connected): setUrl(value).
\* One user changes the url once: no page has sent a url before.
TypeUrl(p, url) ==
  /\ pages[p].isInRoom /\ pages[p].isConnected
  /\ url # pages[p].url
  /\ SumSent(Clients) = 0
  /\ CanSend(p)
  /\ Render(p, [pages[p] EXCEPT !.url = url], <<>>)
  /\ UNCHANGED down
  /\ PageOnly

\* The page of p receives the oldest event in flight to it, of name ev.
Receives(p, ev) ==
  /\ pages[p].conn # NoConn
  /\ down[pages[p].conn] # <<>>
  /\ Head(down[pages[p].conn]).ev = ev

\* The payload of that event.
Payload(p) == Head(down[pages[p].conn]).data

Received1(p) == down' = [down EXCEPT ![pages[p].conn] = Tail(@)]

\* socket.onUrlChange handler: setUrl(url)
OnUrlChanged(p) ==
  /\ Receives(p, "url-changed")
  /\ Render(p, [pages[p] EXCEPT !.url = Payload(p).url], <<>>)
  /\ Received1(p)
  /\ PageOnly

\* socket.onMemberJoin handler: setMembers((prev) => [...prev, member])
OnMemberJoin(p) ==
  /\ Receives(p, "member-joined")
  /\ Render(p, [pages[p] EXCEPT !.members = Append(@, Payload(p))], <<>>)
  /\ Received1(p)
  /\ PageOnly

\* socket.onMemberLeave handler: prev.filter((m) => m.id !== member.id)
OnMemberLeave(p) ==
  /\ Receives(p, "member-left")
  /\ Render(p, [pages[p] EXCEPT
                  !.members = SelectSeq(@, LAMBDA m : m.id # Payload(p).id)], <<>>)
  /\ Received1(p)
  /\ PageOnly

\* socket.onRoomState handler: setMembers(state.members)
OnRoomState(p) ==
  /\ Receives(p, "room-state")
  /\ Render(p, [pages[p] EXCEPT !.members = Payload(p).members], <<>>)
  /\ Received1(p)
  /\ PageOnly

\* The server handles the oldest event in flight from connection c.
Arrives(c, ev) == up[c] # <<>> /\ Head(up[c]).ev = ev

Handled1(c) ==
  /\ \A d \in Conns : Len(down[d]) < MaxInFlight
  /\ up' = [up EXCEPT ![c] = Tail(@)]
  /\ down' = Fanout(down, out')
  /\ UNCHANGED <<netvars, thrown, joinedAs, player, pages, api>>

HandleJoinRoom(c) ==
  /\ Arrives(c, "join-room")
  /\ JoinRoom(c, Head(up[c]).roomId, Head(up[c]).user)
  /\ Handled1(c)

HandleLeaveRoom(c) ==
  /\ Arrives(c, "leave-room")
  /\ LeaveRoom(c, Head(up[c]).roomId, Head(up[c]).user)
  /\ Handled1(c)

HandleSyncUrl(c) ==
  /\ Arrives(c, "sync-url")
  /\ SyncUrl(c, Head(up[c]).roomId, Head(up[c]).url, Head(up[c]).timestamp)
  /\ Handled1(c)

\* Nothing is in flight in either direction.
Quiet == \A c \in Conns : up[c] = <<>> /\ down[c] = <<>>

\* One tab whose socket drops and reconnects, and which joins and leaves.
NextSession ==
  \/ \E c \in Conns : SocketConnect("p1", c)
  \/ SocketDrop("p1")
  \/ JoinClick("p1")
  \/ JoinSuccess("p1", Session["p1"])
  \/ LeaveSuccess("p1", Session["p1"])
  \/ \E url \in InputUrls : TypeUrl("p1", url)
  \/ OnRoomState("p1")
  \/ \E c \in Conns : HandleJoinRoom(c)
  \/ \E c \in Conns : HandleLeaveRoom(c)
  \/ \E c \in Conns : HandleSyncUrl(c)

SpecSession == Init /\ [][NextSession]_vars

\* An event of name ev is in flight from connection c to the server.
InFlight(c, ev) == \E i \in 1..Len(up[c]) : up[c][i].ev = ev

\* C32: whenever a page has isInRoom set and its socket is connected (and its
\* join-room is not still on its way), the server has the socket's
\* connection in the room's broadcast group and the page's user among the
\* room's members.
C32_InRoomMeansJoined ==
  \A p \in Clients :
    (/\ pages[p].isInRoom
     /\ pages[p].isConnected
     /\ ~InFlight(pages[p].conn, "join-room")) =>
      /\ PageRoom \in sockRooms[pages[p].conn]
      /\ Session[p].id \in MapKeys(RoomMembers(PageRoom))

\* Two tabs, each on its own connection, that join the room and set its url;
\* no connection drops and nobody leaves.
TabConn == [p \in Clients |-> IF p = "p1" THEN "c1" ELSE "c2"]

NextTabs ==
  \/ \E p \in Clients : SocketConnect(p, TabConn[p])
  \/ \E p \in Clients : JoinClick(p)
  \/ \E p \in Clients : JoinSuccess(p, Session[p])
  \/ \E p \in Clients, url \in InputUrls : TypeUrl(p, url)
  \/ \E p \in Clients : OnUrlChanged(p)
  \/ \E p \in Clients : OnMemberJoin(p)
  \/ \E p \in Clients : OnRoomState(p)
  \/ \E c \in Conns : HandleJoinRoom(c)
  \/ \E c \in Conns : HandleSyncUrl(c)

SpecTabs == Init /\ [][NextTabs]_vars

\* The same, with both tabs signed in to one account, and leaving.
NextShared ==
  \/ \E p \in Clients : SocketConnect(p, TabConn[p])
  \/ \E p \in Clients : JoinClick(p)
  \/ \E p \in Clients : JoinSuccess(p, SharedSession[p])
  \/ \E p \in Clients : LeaveSuccess(p, SharedSession[p])
  \/ \E p \in Clients : OnMemberJoin(p)
  \/ \E p \in Clients : OnMemberLeave(p)
  \/ \E p \in Clients : OnRoomState(p)
  \/ \E c \in Conns : HandleJoinRoom(c)
  \/ \E c \in Conns : HandleLeaveRoom(c)

SpecShared == Init /\ [][NextShared]_vars

\* The page of p is in the room, and so is its connection on the server.
InRoom(p) ==
  /\ pages[p].isInRoom
  /\ pages[p].isConnected
  /\ PageRoom \in sockRooms[pages[p].conn]

\* C33: a page that is in a room with a playback state holds the room's url
\* once nothing is in flight any more, even if it never set a url itself
\* (it joined after the url was set).
C33_JoinerLearnsUrl ==
  \A p \in Clients :
    (Quiet /\ InRoom(p) /\ pages[p].sent = 0 /\ Playback(PageRoom) # <<>>) =>
      pages[p].url = Playback(PageRoom)[1].url

\* C34: the page that receives url-changed emits nothing in that step; in
\* particular it sends no sync-url back.
C34_NoEcho ==
  [][ \A p \in Clients :
        (Receives(p, "url-changed") /\ down'[pages[p].conn] = Tail(down[pages[p].conn])) =>
          up'[pages[p].conn] = up[pages[p].conn] ]_vars

\* C35: once nothing is in flight after a url change, every page in the room
\* that took part in it (it sent the url, or received and passed it on)
\* holds the url of the room's playback state.
C35_QuiescentAgreement ==
  \A p \in Clients :
    (Quiet /\ InRoom(p) /\ pages[p].sent > 0 /\ Playback(PageRoom) # <<>>) =>
      pages[p].url = Playback(PageRoom)[1].url

\* C36: the member list a page displays never holds two entries with the
\* same member id.
C36_DistinctMembers ==
  \A p \in Clients :
    \A i, j \in 1..Len(pages[p].members) :
      pages[p].members[i].id = pages[p].members[j].id => i = j

====
